---- MODULE Spec2Model ----
(***************************************************************************)
(* A model of the wirecell.sigproc command line (sigproc/__main__.py) and  *)
(* of wirecell.gen.sim.group_channel_indices.                              *)
(*                                                                         *)
(* One process runs one command (main -> cli dispatches once), so every    *)
(* action is a whole command, taken from the state in which no command has *)
(* run yet.  A command's state is its arguments, the calls it makes on its *)
(* collaborators (in order), the exception it ends with, the value it      *)
(* hands to its writer and the file handles it opened.                     *)
(*                                                                         *)
(* Lengths are whole numbers of a small length unit, times whole numbers   *)
(* of ns; a current is a sequence of integer samples.                      *)
(***************************************************************************)
EXTENDS Integers, Sequences, FiniteSets, TLC

VARIABLES cmd, argv, calls, exc, ret, handles

vars == <<cmd, argv, calls, exc, ret, handles>>

\* ---------------------------------------------------------------- bounds

\* Largest |pitchpos| of the first path of a frzero input.
MaxPos == 4
\* Most paths per plane of a frzero input.
MaxPaths == 3
\* Most planes of a field response.
MaxPlanes == 2
\* Largest --number given to frzero.
MaxNumber == 2
\* Samples per current.
NSamples == 2
\* Longest channel list given to group_channel_indices.
MaxChannels == 3
\* Largest channel number.
MaxChannel == 3

\* Outermost wire (strip) a fr2npz input has paths for.
MaxWire == 1
\* Largest magnitude a sample can hold before it is no longer finite.
MaxFloat == 1000000

\* Most records gar.load returns to plot-garfield-track-response.
MaxRecords == 3
\* Largest |region| of such a record, and largest --regions.
MaxRegion == 2

\* --------------------------------------------------------------- helpers

Abs(x) == IF x < 0 THEN -x ELSE x

Range(s) == {s[i] : i \in DOMAIN s}

\* int(a // b) for b > 0: the quotient rounded down.
PyInt_floor(a, b) == a \div b

\* Python's int(a / b) for b > 0: the quotient truncated toward zero.
PyInt(a, b) == IF a >= 0 THEN a \div b ELSE -((-a) \div b)

\* The wire region of a pitch position: pitchpos / pitch rounded to the
\* nearest integer, the region of wire w covering [w*pitch - pitch/2,
\* w*pitch + pitch/2).
RegionOf(pitchpos, pitch) == (2 * pitchpos + pitch) \div (2 * pitch)

Zeros(n) == [i \in 1..n |-> 0]

\* The value v itself, computed once, here, instead of at every later use.
Computed(v) == CHOOSE g \in {v} : g = g

\* Body(x) with x the value of v, computed once.
Let(v, Body(_)) == CHOOSE r \in {Body(x) : x \in {v}} : TRUE

\* ------------------------------------------------- field response inputs

\* A path of plane `idx` at the j-th position: a current of distinct
\* non-zero samples.
MkPath(idx, j, pitchpos) ==
    [pitchpos |-> pitchpos,
     current  |-> [i \in 1..NSamples |-> 10 * idx + 2 * j + i]]

\* A plane whose paths lie on a regular grid first, first+step, ...
GridPlane(idx, pitch, first, step, count) ==
    [planeid  |-> idx - 1,
     location |-> 30 * idx,
     pitch    |-> pitch,
     paths    |-> [j \in 1..count |-> MkPath(idx, j, first + (j - 1) * step)]]

MkFR(planes) ==
    [origin |-> 100, tstart |-> 0, period |-> 500, speed |-> 1,
     axis |-> <<1, 0, 0>>, planes |-> planes]

\* The field responses frzero is run on: 1..MaxPlanes planes over one grid
\* of pitch positions, plane idx of pitch pitch0 + 2 * (idx - 1).  The
\* pitches are odd, so no pitch position lies half way between two wires.
FrzeroInputs ==
    {MkFR([idx \in 1..n |-> GridPlane(idx, pitch0 + 2 * (idx - 1), first, step, count)]) :
        n \in 1..MaxPlanes, pitch0 \in {3, 5}, first \in (-MaxPos)..MaxPos,
        step \in {1, 2}, count \in 1..MaxPaths}

\* What a file holds for persist.load: a document of the schema, or not.
BadDocument == [valid |-> FALSE]

Document(fr) == [valid |-> TRUE, fr |-> fr]

\* persist.load: the field response of the document, FormatError on a
\* document that is not of the schema.
per_load(doc) ==
    IF doc.valid THEN [exc |-> "none", fr |-> doc.fr]
    ELSE [exc |-> "FormatError"]

\* ---------------------------------------------------------------- fr2npz

\* One row short of the rows of a wire region.
PixelsPerWire_short == 10 - 1

\* The rows of pixels of one wire region ("A wire region is 10 pixels wide").
PixelsPerWire == 10

\* units.us and units.mV/units.fC of the unit table (ns = 1; the gain factor
\* 1.602e-13 is kept in multiples of 1e-14).
units_us == 1000

units_mV_fC == 16

RECURSIVE SumOver(_, _)
\* The sum of f[x] over the finite set S.
SumOver(S, f) ==
    IF S = {} THEN 0
    ELSE Let(CHOOSE y \in S : TRUE, LAMBDA x : f[x] + SumOver(S \ {x}, f))

RECURSIVE SortedSeq(_)
\* The integers of S in increasing order.
SortedSeq(S) ==
    IF S = {} THEN <<>>
    ELSE Let(CHOOSE y \in S : \A z \in S : y <= z,
             LAMBDA m : <<m>> \o SortedSeq(S \ {m}))

\* A path of a fr2npz input: the same current at +p and -p (flip symmetry),
\* of even samples.
SymPath(idx, pitchpos, n) ==
    [pitchpos |-> pitchpos,
     current  |-> [i \in 1..n |-> 2 * (Abs(pitchpos) + i + 10 * idx)]]

\* The pitch positions of a fr2npz input plane of pitch 20, increasing: a
\* grid up to the upper edge of wire k, from 1 ("pos"), from the lower edge
\* of wire -k ("both") or of wire 0 ("upper").  The grid is the odd
\* positions, one to a bin; "gap" leaves position 3 out, "dense" is the grid
\* of every position, "sparse" is the first two positions only.
LayoutPositions(k, side, defect) ==
    LET hi   == 20 * k + 9
        lo   == CASE side = "pos" -> 1 [] side = "both" -> -hi [] OTHER -> -9
        step == IF defect = "dense" THEN 1 ELSE 2
        n    == CASE defect = "sparse" -> 2
                  [] defect = "gap"    -> (hi - lo) \div step
                  [] OTHER             -> (hi - lo) \div step + 1
    IN [j \in 1..n |->
          LET q == lo + step * (j - 1)
          IN IF defect = "gap" /\ q >= 3 THEN q + step ELSE q]

PixelPlane(idx, k, side, defect) ==
    [planeid  |-> idx - 1,
     location |-> 30 * idx,
     pitch    |-> 20,
     paths    |-> [j \in DOMAIN LayoutPositions(k, side, defect) |->
                    SymPath(idx, LayoutPositions(k, side, defect)[j],
                            IF defect = "ragged" /\ j = 1 THEN NSamples - 1 ELSE NSamples)]]

\* The field responses fr2npz is run on: plane idx reaches wire
\* (k + idx - 1) % (MaxWire + 1).
Fr2npzInputs ==
    {MkFR([idx \in 1..n |-> PixelPlane(idx, (k + idx - 1) % (MaxWire + 1), side, defect)]) :
        n \in 1..MaxPlanes, k \in 0..MaxWire, side \in {"pos", "both", "upper"},
        defect \in {"none", "gap", "dense", "sparse", "ragged"}}

\* Symmetry completion: when every path lies on one side of pitchpos 0, the
\* mirror path at -pitchpos with the same current is added.
SymmetryComplete(pr) ==
    LET given == Range(pr.paths)
        onesided == \/ \A q \in given : q.pitchpos >= 0
                    \/ \A q \in given : q.pitchpos <= 0
    IN IF onesided
       THEN given \cup {[q EXCEPT !.pitchpos = -q.pitchpos] : q \in given}
       ELSE given

\* The wire regions of a set of paths, increasing.
PlaneRegions(paths, pitch) == SortedSeq({RegionOf(q.pitchpos, pitch) : q \in paths})

\* The sub-position bin (0 nearest -pitch/2) of a pitch position within its
\* wire region.
BinOf(pitchpos, pitch) ==
    LET offset == pitchpos - RegionOf(pitchpos, pitch) * pitch
    IN ((2 * offset + pitch) * PixelsPerWire) \div (2 * pitch)

BinPaths(paths, pitch, w, r) ==
    {q \in paths : RegionOf(q.pitchpos, pitch) = w /\ BinOf(q.pitchpos, pitch) = r}

\* The arithmetic mean of the currents of a non-empty set of paths.
MeanTrace(B) ==
    [i \in 1..Len((CHOOSE q \in B : TRUE).current) |->
        SumOver(B, [q \in B |-> q.current[i]]) \div Cardinality(B)]

\* The centre of bin r of wire region w.
BinCenter(pitch, w, r) ==
    w * pitch + ((2 * r + 1 - PixelsPerWire) * pitch) \div (2 * PixelsPerWire)

\* Steps 1 to 4 of the array builder for one plane: the rows ordered by
\* wire region and then bin, with their centres; DataError on differing
\* sample counts, on less than one wire of paths and on an empty bin.
Pixelize(pr) ==
    Let(Computed(SymmetryComplete(pr)), LAMBDA paths :
    Let(PlaneRegions(paths, pr.pitch), LAMBDA regs :
    Let(Computed([m \in 1..(PixelsPerWire * Len(regs)) |->
                    BinPaths(paths, pr.pitch, regs[(m - 1) \div PixelsPerWire + 1],
                             (m - 1) % PixelsPerWire)]), LAMBDA bins :
        IF \/ Cardinality({Len(q.current) : q \in paths}) # 1
           \/ Cardinality(paths) < PixelsPerWire
           \/ \E m \in DOMAIN bins : bins[m] = {}
        THEN [exc |-> "DataError"]
        ELSE [exc |-> "none",
              resp |-> Computed([m \in DOMAIN bins |-> MeanTrace(bins[m])]),
              bincenters |-> Computed([m \in DOMAIN bins |->
                    BinCenter(pr.pitch, regs[(m - 1) \div PixelsPerWire + 1],
                              (m - 1) % PixelsPerWire)])])))

\* The electronics response sampled at `period`: `gain` for the shaping
\* time, 0 after it.
electronics(gain, shaping, period, n) ==
    [i \in 1..n |-> IF (i - 1) * period < shaping THEN gain ELSE 0]

\* The linear convolution of a row with the electronics response, cut to
\* the row's length.
Convolve(row, eresp) ==
    [i \in DOMAIN row |-> SumOver(1..i, [j \in 1..i |-> row[j] * eresp[i - j + 1]])]

\* Steps 1 to 5 of the array builder for one plane: the plane pixelized and,
\* with `conv`, every row convolved; NumericError when a sample of the
\* result is not finite.
PlaneArrays(pr, conv, eresp) ==
    Let(Pixelize(pr), LAMBDA pix :
        IF pix.exc # "none" THEN pix
        ELSE Let(Computed([m \in DOMAIN pix.resp |->
                    IF conv THEN Convolve(pix.resp[m], eresp) ELSE pix.resp[m]]),
                 LAMBDA rows :
                    IF \E m \in DOMAIN rows : \E i \in DOMAIN rows[m] :
                            Abs(rows[m][i]) > MaxFloat
                    THEN [exc |-> "NumericError"]
                    ELSE [exc |-> "none", resp |-> rows, bincenters |-> pix.bincenters]))

\* The dictionary fr2arrays returns: eresp and espec only with `conv`; resp
\* and bincenters hold resp{p} and bincenters{p} at index p + 1; espec is
\* kept by its length and zero-frequency term.
ArraysDict(fr, gain, shaping, conv, eresp, arrays) ==
    [key \in {"resp", "bincenters", "pitches", "locations", "origin", "tstart",
              "period", "speed", "gain", "shaping"}
             \cup (IF conv THEN {"eresp", "espec"} ELSE {}) |->
        CASE key = "resp"       -> [p \in DOMAIN arrays |-> arrays[p].resp]
          [] key = "bincenters" -> [p \in DOMAIN arrays |-> arrays[p].bincenters]
          [] key = "pitches"    -> [p \in DOMAIN arrays |-> fr.planes[p].pitch]
          [] key = "locations"  -> [p \in DOMAIN arrays |-> fr.planes[p].location]
          [] key = "origin"     -> fr.origin
          [] key = "tstart"     -> fr.tstart
          [] key = "period"     -> fr.period
          [] key = "speed"      -> fr.speed
          [] key = "gain"       -> gain
          [] key = "shaping"    -> shaping
          [] key = "eresp"      -> eresp
          [] OTHER              -> [n |-> Len(eresp), dc |-> SumOver(DOMAIN eresp, eresp)]]

\* fr2arrays: every plane pixelized, every row convolved when gain and
\* shaping are both non-zero, the scalars attached.
fr2arrays(fr, gain, shaping) ==
    Let(Computed(electronics(gain, shaping, fr.period, NSamples)), LAMBDA eresp :
    Let(Computed([p \in DOMAIN fr.planes |->
                    PlaneArrays(fr.planes[p], gain # 0 /\ shaping # 0, eresp)]),
        LAMBDA arrays :
            IF \E p \in DOMAIN arrays : arrays[p].exc = "DataError"
            THEN [exc |-> "DataError"]
            ELSE IF \E p \in DOMAIN arrays : arrays[p].exc = "NumericError"
            THEN [exc |-> "NumericError"]
            ELSE [exc |-> "none",
                  dat |-> ArraysDict(fr, gain, shaping, gain # 0 /\ shaping # 0,
                                     eresp, arrays)]))

\* fr2npz with gain set to the unit factor instead of scaled by it.
fr2npz_gain_assigned(gain, shaping, doc) ==
    IF per_load(doc).exc # "none"
    THEN [calls |-> <<"per.load">>, exc |-> per_load(doc).exc, ret |-> [written |-> FALSE]]
    ELSE Let(fr2arrays(per_load(doc).fr, units_mV_fC, shaping * units_us),
             LAMBDA a :
                IF a.exc # "none"
                THEN [calls |-> <<"per.load", "arrs.fr2arrays">>, exc |-> a.exc,
                      ret |-> [written |-> FALSE]]
                ELSE [calls |-> <<"per.load", "arrs.fr2arrays", "numpy.savez">>,
                      exc |-> "none", ret |-> [written |-> TRUE, dat |-> a.dat]])

\* fr2npz with the archive opened for writing before the arrays are built.
fr2npz_save_first(gain, shaping, doc) ==
    IF per_load(doc).exc # "none"
    THEN [calls |-> <<"per.load">>, exc |-> per_load(doc).exc, ret |-> [written |-> FALSE]]
    ELSE Let(fr2arrays(per_load(doc).fr, gain * units_mV_fC, shaping * units_us),
             LAMBDA a :
                IF a.exc # "none"
                THEN [calls |-> <<"per.load", "numpy.savez", "arrs.fr2arrays">>,
                      exc |-> a.exc, ret |-> [written |-> TRUE, dat |-> <<>>]]
                ELSE [calls |-> <<"per.load", "numpy.savez", "arrs.fr2arrays">>,
                      exc |-> "none", ret |-> [written |-> TRUE, dat |-> a.dat]])

\* The body of fr2npz: load, scale gain and shaping, build the arrays, save.
fr2npz(gain, shaping, doc) ==
    IF per_load(doc).exc # "none"
    THEN [calls |-> <<"per.load">>, exc |-> per_load(doc).exc, ret |-> [written |-> FALSE]]
    ELSE Let(fr2arrays(per_load(doc).fr, gain * units_mV_fC, shaping * units_us),
             LAMBDA a :
                IF a.exc # "none"
                THEN [calls |-> <<"per.load", "arrs.fr2arrays">>, exc |-> a.exc,
                      ret |-> [written |-> FALSE]]
                ELSE [calls |-> <<"per.load", "arrs.fr2arrays", "numpy.savez">>,
                      exc |-> "none", ret |-> [written |-> TRUE, dat |-> a.dat]])

Fr2npz ==
    /\ cmd = "none"
    /\ \E gain \in {-14, 0, 14, 100000}, shaping \in {0, 1, 2},
          doc \in {BadDocument} \cup {Document(fr) : fr \in Fr2npzInputs} :
         \E r \in {fr2npz(gain, shaping, doc)} :
             /\ cmd' = "fr2npz"
             /\ argv' = [gain |-> gain, shaping |-> shaping, json_file |-> doc]
             /\ calls' = r.calls
             /\ exc' = r.exc
             /\ ret' = r.ret
             /\ handles' = {}

\* ---------------------------------------------------------------- frzero

\* A plane with paths at -h, 0 and +h, the paths at -h and +h of one
\* current (flip symmetry).
MirrorPlane(idx, pitch, h) ==
    [planeid  |-> idx - 1,
     location |-> 30 * idx,
     pitch    |-> pitch,
     paths    |-> <<SymPath(idx, -h, NSamples), SymPath(idx, 0, NSamples),
                    SymPath(idx, h, NSamples)>>]

\* The flip-symmetric field responses frzero is run on.
MirrorInputs ==
    {MkFR([idx \in 1..n |-> MirrorPlane(idx, pitch0 + 2 * (idx - 1), h)]) :
        n \in 1..MaxPlanes, pitch0 \in {3, 5}, h \in 1..MaxPos}

zero_path(path) == [path EXCEPT !.current = Zeros(Len(path.current))]

\* frzero_plane with an off-centre path removed from the plane instead of
\* having its samples set to 0.
frzero_plane_drop(pr, number) ==
    [pr EXCEPT !.paths =
        SelectSeq(pr.paths, LAMBDA path : Abs(PyInt(path.pitchpos, pr.pitch)) <= number)]

\* The loop of frzero over one plane: a path is kept when
\* abs(int(pitchpos / pitch)) <= number, and its samples set to 0 otherwise.
frzero_plane(pr, number) ==
    [pr EXCEPT !.paths =
        [j \in DOMAIN pr.paths |->
            IF Abs(PyInt(pr.paths[j].pitchpos, pr.pitch)) <= number
            THEN pr.paths[j]
            ELSE zero_path(pr.paths[j])]]

\* The body of frzero: load, zero in place, dump.
frzero(number, doc) ==
    LET l == per_load(doc) IN
    IF l.exc # "none"
    THEN [calls |-> <<"per.load">>, exc |-> l.exc, ret |-> [written |-> FALSE]]
    ELSE LET out == [l.fr EXCEPT !.planes =
                        [p \in DOMAIN l.fr.planes |-> frzero_plane(l.fr.planes[p], number)]]
         IN [calls |-> <<"per.load", "per.dump">>, exc |-> "none",
             ret |-> [written |-> TRUE, fr |-> out]]

Frzero ==
    /\ cmd = "none"
    /\ \E number \in (-1)..MaxNumber, doc \in {BadDocument} \cup {Document(fr) : fr \in FrzeroInputs \cup MirrorInputs} :
         LET r == frzero(number, doc) IN
         /\ cmd' = "frzero"
         /\ argv' = [number |-> number, infile |-> doc]
         /\ calls' = r.calls
         /\ exc' = r.exc
         /\ ret' = r.ret
         /\ handles' = {}

\* ------------------------------------------- eval of option expressions

\* The names of the unit table (units.__dict__) an expression can use, with
\* their values: floats, here as fractions.
UnitNames == {"mm", "cm", "us"}

UnitValue(id) ==
    CASE id = "mm" -> [num |-> 1, den |-> 1]
      [] id = "cm" -> [num |-> 10, den |-> 1]
      [] OTHER     -> [num |-> units_us, den |-> 1]

\* Expressions, as Python parses them: a numeric literal, a name, a call of
\* a builtin (such as __import__('os').getpid()), a list display, text that
\* does not parse, and the product or quotient of two expressions.
Num(n, d, type) == [kind |-> "num", num |-> n, den |-> d, type |-> type]

Name(id) == [kind |-> "name", id |-> id]

Bin(op, l, r) == [kind |-> "bin", op |-> op, l |-> l, r |-> r]

Atoms ==
    {Num(0, 1, "int"), Num(10, 1, "int"), Num(1114, 1000, "float")}
    \cup {Name(id) : id \in UnitNames \cup {"furlong"}}
    \cup {[kind |-> "call"], [kind |-> "list"], [kind |-> "garbage"]}

\* The default of --origin, "10.0*cm", and of --speed, "1.114*mm/us"; the
\* defaults "0.5*us" and "1e-9*0.5/1.13312" of channel-responses are of the
\* same shapes.
DefaultOrigin == Bin("*", Num(10, 1, "float"), Name("cm"))

DefaultSpeed == Bin("/", Bin("*", Num(1114, 1000, "float"), Name("mm")), Name("us"))

Exprs ==
    Atoms \cup {Bin(op, l, r) : op \in {"*", "/"}, l \in Atoms, r \in Atoms}
          \cup {DefaultOrigin, DefaultSpeed}

RECURSIVE Parses(_)
\* Whether the text compiles as an expression.
Parses(e) ==
    CASE e.kind = "garbage" -> FALSE
      [] e.kind = "bin"     -> Parses(e.l) /\ Parses(e.r)
      [] OTHER              -> TRUE

Raise(name, ran) == [exc |-> name, ran |-> ran]

Value(type, n, d, ran) == [exc |-> "none", type |-> type, num |-> n, den |-> d, ran |-> ran]

\* l op r on two values, as Python's * and / do it: a list times an int is a
\* list, any other use of a list is a TypeError, / by zero a
\* ZeroDivisionError, / gives a float.
Apply(op, l, r) ==
    LET ran == l.ran \/ r.ran IN
    IF l.type = "list" \/ r.type = "list"
    THEN IF op = "*" /\ {l.type, r.type} = {"list", "int"}
         THEN Value("list", 0, 1, ran)
         ELSE Raise("TypeError", ran)
    ELSE IF op = "*"
    THEN Value(IF l.type = "int" /\ r.type = "int" THEN "int" ELSE "float",
               l.num * r.num, l.den * r.den, ran)
    ELSE IF r.num = 0 THEN Raise("ZeroDivisionError", ran)
    ELSE Value("float", l.num * r.den * (IF r.num < 0 THEN -1 ELSE 1),
               l.den * Abs(r.num), ran)

RECURSIVE Evaluate(_)
\* The evaluation of a parsed expression with units.__dict__ as globals:
\* names are looked up in the unit table (NameError when missing), calls
\* are run (`ran`), the left operand is evaluated before the right.
Evaluate(e) ==
    CASE e.kind = "num"  -> Value(e.type, e.num, e.den, FALSE)
      [] e.kind = "name" ->
            IF e.id \in UnitNames
            THEN Value("float", UnitValue(e.id).num, UnitValue(e.id).den, FALSE)
            ELSE Raise("NameError", FALSE)
      [] e.kind = "call" -> Value("int", 4242, 1, TRUE)
      [] e.kind = "list" -> Value("list", 0, 1, FALSE)
      [] OTHER ->
            Let(Evaluate(e.l), LAMBDA l :
                IF l.exc # "none" THEN l
                ELSE Let(Evaluate(e.r), LAMBDA r :
                        IF r.exc # "none" THEN Raise(r.exc, l.ran \/ r.ran)
                        ELSE Apply(e.op, l, r)))

\* eval(text, units.__dict__)
py_eval(e) == IF Parses(e) THEN Evaluate(e) ELSE Raise("SyntaxError", FALSE)

\* ------------------------------------------------------ convert-garfield

\* The body of convert_garfield: origin and speed are evaluated, then the
\* fileset is loaded, converted and dumped.
convert_garfield(origin, speed) ==
    Let(py_eval(origin), LAMBDA o :
        IF o.exc # "none"
        THEN [calls |-> <<>>, exc |-> o.exc, ret |-> [evals |-> <<o>>, written |-> FALSE]]
        ELSE Let(py_eval(speed), LAMBDA v :
                IF v.exc # "none"
                THEN [calls |-> <<>>, exc |-> v.exc,
                      ret |-> [evals |-> <<o, v>>, written |-> FALSE]]
                ELSE [calls |-> <<"gar.load", "rf1dtoschema", "per.dump">>, exc |-> "none",
                      ret |-> [evals |-> <<o, v>>, written |-> TRUE]]))

ConvertGarfield ==
    /\ cmd = "none"
    /\ \E origin \in Exprs, speed \in {DefaultSpeed, Name("furlong"), [kind |-> "call"]} :
         \E r \in {convert_garfield(origin, speed)} :
             /\ cmd' = "convert_garfield"
             /\ argv' = [origin |-> origin, speed |-> speed]
             /\ calls' = r.calls
             /\ exc' = r.exc
             /\ ret' = r.ret
             /\ handles' = {}

\* ----------------------------------------------------------- file names

\* A file name is the sequence of its characters.
DotNpz == <<".", "n", "p", "z">>

DotNpy == <<".", "n", "p", "y">>

DotTxt == <<".", "t", "x", "t">>

DotJson == <<".", "j", "s", "o", "n">>

DotJsonBz2 == DotJson \o <<".", "b", "z", "2">>

DotJsonGz == DotJson \o <<".", "g", "z">>

\* str.endswith
EndsWith(name, suffix) ==
    /\ Len(name) >= Len(suffix)
    /\ SubSeq(name, Len(name) - Len(suffix) + 1, Len(name)) = suffix

\* suffix in name
Contains(name, suffix) ==
    \E k \in 1..(Len(name) - Len(suffix) + 1) :
        SubSeq(name, k, k + Len(suffix) - 1) = suffix

\* ---------------------------------------------------------- file handles

\* A handle the command opened, with whether it is still open when the
\* command returns.  A handle opened by a with statement is closed on every
\* way out of the block.  A handle that is only the target of .write(...)
\* is closed when the interpreter finalizes the unreferenced file object:
\* at once where objects are reference counted ("refcount"), at some later
\* collection otherwise ("deferred").
ScopedHandle(file) == [file |-> file, scoped |-> TRUE, open |-> FALSE]

BareHandle(file, gc) == [file |-> file, scoped |-> FALSE, open |-> gc = "deferred"]

\* What the run does not decide: whether a write to disk succeeds, and how
\* the interpreter finalizes objects.
Envs == [writeOk : BOOLEAN, gc : {"refcount", "deferred"}]

\* ----------------------------------------- plot-garfield-track-response

\* The records gar.load returns: each with its region, `id` its place in
\* the list.
RecordLists ==
    UNION {{[j \in 1..n |-> [id |-> j, region |-> regs[j]]] :
                regs \in [1..n -> (-MaxRegion)..MaxRegion]} : n \in 0..MaxRecords}

DumpNames ==
    {<<>>, DotJson, <<"n", "p", "z">>}
    \cup {<<"d">> \o ext : ext \in {DotNpz, DotNpy, DotTxt, DotJson, <<".", "c", "s", "v">>,
                                     DotNpz \o <<".", "g", "z">>}}

\* dat = [r for r in dat if abs(r.region) in range(regions)] with one region
\* more than asked for.
limit_regions_inclusive(dat, regions) ==
    IF regions # 0
    THEN SelectSeq(dat, LAMBDA r : Abs(r.region) \in 0..regions)
    ELSE dat

\* if regions: dat = [r for r in dat if abs(r.region) in range(regions)]
limit_regions(dat, regions) ==
    IF regions # 0
    THEN SelectSeq(dat, LAMBDA r : Abs(r.region) \in 0..(regions - 1))
    ELSE dat

\* dump_formats with `ext in dump_data` in place of dump_data.endswith(ext).
dump_formats_contains(dump_data) ==
    IF dump_data = <<>> THEN <<>>
    ELSE (IF Contains(dump_data, DotNpz) THEN <<"numpy.savez">> ELSE <<>>)
      \o (IF Contains(dump_data, DotNpy) THEN <<"numpy.save">> ELSE <<>>)
      \o (IF Contains(dump_data, DotTxt) THEN <<"write.txt">> ELSE <<>>)
      \o (IF Contains(dump_data, DotJson) THEN <<"write.json">> ELSE <<>>)

\* The writers the four ifs under `if dump_data:` reach, in order.
dump_formats(dump_data) ==
    IF dump_data = <<>> THEN <<>>
    ELSE (IF EndsWith(dump_data, DotNpz) THEN <<"numpy.savez">> ELSE <<>>)
      \o (IF EndsWith(dump_data, DotNpy) THEN <<"numpy.save">> ELSE <<>>)
      \o (IF EndsWith(dump_data, DotTxt) THEN <<"write.txt">> ELSE <<>>)
      \o (IF EndsWith(dump_data, DotJson) THEN <<"write.json">> ELSE <<>>)

\* The handles of the dump: the .txt file is opened by a with statement,
\* the .json file by open(...).write(...).
dump_handles(dump_data, env) ==
    {ScopedHandle(dump_data) : w \in {x \in Range(dump_formats(dump_data)) : x = "write.txt"}}
    \cup {BareHandle(dump_data, env.gc) :
                w \in {x \in Range(dump_formats(dump_data)) : x = "write.json"}}

\* The body of plot_garfield_track_response: load, limit the regions, plot,
\* save the figure, dump.
plot_garfield_track_response(dat, regions, dump_data, env) ==
    [calls |-> <<"gar.load", "res.line", "plots.plot_digitized_line", "fig.savefig">>
               \o dump_formats(dump_data),
     exc |-> IF dump_handles(dump_data, env) # {} /\ ~env.writeOk THEN "OSError" ELSE "none",
     ret |-> [dat |-> limit_regions(dat, regions),
              nwires |-> Cardinality({Abs(r.region) :
                            r \in Range(limit_regions(dat, regions))}) - 1],
     handles |-> dump_handles(dump_data, env)]

PlotGarfieldTrackResponse ==
    /\ cmd = "none"
    /\ \E dat \in RecordLists, regions \in (-1)..(MaxRegion + 1), dump_data \in DumpNames :
         \E env \in IF dump_handles(dump_data, [writeOk |-> TRUE, gc |-> "refcount"]) = {}
                     THEN {[writeOk |-> TRUE, gc |-> "refcount"]} ELSE Envs :
         \E r \in {plot_garfield_track_response(dat, regions, dump_data, env)} :
             /\ cmd' = "plot_garfield_track_response"
             /\ argv' = [dat |-> dat, regions |-> regions, dump_data |-> dump_data,
                         env |-> env]
             /\ calls' = r.calls
             /\ exc' = r.exc
             /\ ret' = r.ret
             /\ handles' = r.handles

\* ----------------------------------------------------- channel-responses

OutNames ==
    {<<"o">> \o ext : ext \in {DotJsonBz2, DotJsonGz, DotJson, <<".", "b", "z", "2">>}}

\* The end of channel_responses, from json.dumps on: the output is opened
\* through bz2, gzip or open by its extension and the text written to it;
\* the bz2 and gzip files are binary and refuse the str with a TypeError.
write_responses(outfile, env) ==
    IF EndsWith(outfile, DotJsonBz2)
    THEN [calls |-> <<"json.dumps", "bz2.BZ2File", "write">>, exc |-> "TypeError"]
    ELSE IF EndsWith(outfile, DotJsonGz)
    THEN [calls |-> <<"json.dumps", "gzip.open", "write">>, exc |-> "TypeError"]
    ELSE [calls |-> <<"json.dumps", "open", "write">>,
          exc |-> IF env.writeOk THEN "none" ELSE "OSError"]

\* The body of channel_responses: tscale and scale are evaluated, the
\* histogram is read (AssertionError without the file, exit status 1
\* without the histogram), the responses are written.
channel_responses(tscale, scale, fileOk, histOk, outfile, env) ==
    Let(py_eval(tscale), LAMBDA t :
    IF t.exc # "none"
    THEN [calls |-> <<>>, exc |-> t.exc, handles |-> {},
          ret |-> [evals |-> <<t>>, written |-> FALSE]]
    ELSE Let(py_eval(scale), LAMBDA c :
    IF c.exc # "none"
    THEN [calls |-> <<>>, exc |-> c.exc, handles |-> {},
          ret |-> [evals |-> <<t, c>>, written |-> FALSE]]
    ELSE IF ~fileOk
    THEN [calls |-> <<"ROOT.TFile.Open">>, exc |-> "AssertionError", handles |-> {},
          ret |-> [evals |-> <<t, c>>, written |-> FALSE]]
    ELSE IF ~histOk
    THEN [calls |-> <<"ROOT.TFile.Open", "tf.Get">>, exc |-> "SystemExit(1)",
          handles |-> {}, ret |-> [evals |-> <<t, c>>, written |-> FALSE]]
    ELSE [calls |-> <<"ROOT.TFile.Open", "tf.Get", "hist2array">>
                    \o write_responses(outfile, env).calls,
          exc |-> write_responses(outfile, env).exc,
          handles |-> {BareHandle(outfile, env.gc)},
          ret |-> [evals |-> <<t, c>>,
                   written |-> write_responses(outfile, env).exc = "none"]]))

ChannelResponses ==
    /\ cmd = "none"
    /\ \E tscale \in {Bin("*", Num(5, 10, "float"), Name("us")), Name("furlong")},
          scale \in {DefaultSpeed, [kind |-> "call"], [kind |-> "garbage"]},
          fileOk \in BOOLEAN, histOk \in BOOLEAN, outfile \in OutNames, env \in Envs :
         \E r \in {channel_responses(tscale, scale, fileOk, histOk, outfile, env)} :
             /\ cmd' = "channel_responses"
             /\ argv' = [tscale |-> tscale, scale |-> scale, fileOk |-> fileOk,
                         histOk |-> histOk, outfile |-> outfile, env |-> env]
             /\ calls' = r.calls
             /\ exc' = r.exc
             /\ ret' = r.ret
             /\ handles' = r.handles

\* ------------------------------------------------- convert-noise-spectra

KnownFormats == {"microboonev1", "icarusv1-incoherent", "icarusv1-coherent"}

\* The values of --format the command is run with: the three it knows, and
\* a later version, another case and the empty string.
Formats == KnownFormats \cup {"microboonev2", "MicroBooNEv1", ""}

NoiseFiles == {"noise.csv", "noise.root"}

\* The if/elif chain with the first loader taken for a format it does not
\* name.
loader_for_default(format) ==
    CASE format = "icarusv1-incoherent" -> "load_noise_spectra"
      [] format = "icarusv1-coherent"   -> "load_coherent_noise_spectra"
      [] OTHER                          -> "load_noise_spectra_v1"

\* The if/elif chain that picks the loader of a format, "None" when it
\* names none.
loader_for(format) ==
    CASE format = "microboonev1"        -> "load_noise_spectra_v1"
      [] format = "icarusv1-incoherent" -> "load_noise_spectra"
      [] format = "icarusv1-coherent"   -> "load_coherent_noise_spectra"
      [] OTHER                          -> "None"

\* A call of a collaborator on a file.
Call(fn, file) == [fn |-> fn, file |-> file]

\* The body of convert_noise_spectra: without a loader the format is
\* echoed and the command exits with status 1; otherwise the loader is run
\* on the input, an exception of it leaving the command, and its spectra
\* are handed to persist.dump.
convert_noise_spectra(format, inputfile, outputfile, loadOk) ==
    IF loader_for(format) = "None"
    THEN [calls |-> <<Call("click.echo", format)>>, exc |-> "SystemExit(1)",
          ret |-> [written |-> FALSE]]
    ELSE IF ~loadOk
    THEN [calls |-> <<Call(loader_for(format), inputfile)>>, exc |-> "Exception",
          ret |-> [written |-> FALSE]]
    ELSE [calls |-> <<Call(loader_for(format), inputfile),
                      Call("persist.dump", outputfile)>>,
          exc |-> "none", ret |-> [written |-> TRUE]]

ConvertNoiseSpectra ==
    /\ cmd = "none"
    /\ \E format \in Formats, inputfile \in NoiseFiles, loadOk \in BOOLEAN :
         \E r \in {convert_noise_spectra(format, inputfile, "spectra.json.bz2", loadOk)} :
             /\ cmd' = "convert_noise_spectra"
             /\ argv' = [format |-> format, inputfile |-> inputfile,
                         outputfile |-> "spectra.json.bz2", loadOk |-> loadOk]
             /\ calls' = r.calls
             /\ exc' = r.exc
             /\ ret' = r.ret
             /\ handles' = {}

\* ------------------------------------------------- group_channel_indices

\* channels[i] with Python's indices, from 0.
At0(s, i) == s[i + 1]

\* numpy.where(chd > 1)[0]: the indices i, increasing, with
\* channels[i+1] - channels[i] > 1.
chjumps_where(channels) ==
    SelectSeq([k \in 1..(Len(channels) - 1) |-> k - 1],
              LAMBDA i : At0(channels, i + 1) - At0(channels, i) > 1)

\* The index ranges (a+1, b+1) between consecutive entries of
\* [-1] + where + [size-1].
group_channel_indices(channels) ==
    LET chjumps == <<-1>> \o chjumps_where(channels) \o <<Len(channels) - 1>>
    IN [k \in 1..(Len(chjumps) - 1) |-> <<chjumps[k] + 1, chjumps[k + 1] + 1>>]

ChannelLists ==
    UNION {[1..n -> 0..MaxChannel] : n \in 0..MaxChannels}

GroupChannelIndices ==
    /\ cmd = "none"
    /\ \E channels \in ChannelLists :
         /\ cmd' = "group_channel_indices"
         /\ argv' = [channels |-> channels]
         /\ calls' = <<>>
         /\ exc' = "none"
         /\ ret' = [groups |-> group_channel_indices(channels)]
         /\ handles' = {}

\* ------------------------------------------------------------------ spec

Init ==
    /\ cmd = "none"
    /\ argv = [none |-> TRUE]
    /\ calls = <<>>
    /\ exc = "none"
    /\ ret = [none |-> TRUE]
    /\ handles = {}

Next ==
    \/ Fr2npz
    \/ Frzero
    \/ ConvertGarfield
    \/ PlotGarfieldTrackResponse
    \/ ChannelResponses
    \/ ConvertNoiseSpectra
    \/ GroupChannelIndices

Spec == Init /\ [][Next]_vars

\* ---------------------------------------------------------------- claims

Fr2npzDone == cmd = "fr2npz" /\ exc = "none"

Fr2npzFR == argv.json_file.fr

\* The paths of plane pr (after symmetry completion) in sub-position r of
\* wire region w: r * pitch/10 <= pitchpos - (w * pitch - pitch/2) <
\* (r + 1) * pitch/10.
SubPosition(pr, w, r) ==
    {q \in SymmetryComplete(pr) :
        /\ r * pr.pitch <= 10 * (q.pitchpos - w * pr.pitch) + 5 * pr.pitch
        /\ 10 * (q.pitchpos - w * pr.pitch) + 5 * pr.pitch < (r + 1) * pr.pitch}

C2_ConvolutionNeedsGainAndShaping ==
    Fr2npzDone =>
        /\ "eresp" \in DOMAIN ret.dat <=> (argv.gain # 0 /\ argv.shaping # 0)
        /\ "espec" \in DOMAIN ret.dat <=> (argv.gain # 0 /\ argv.shaping # 0)
        /\ (argv.gain = 0 \/ argv.shaping = 0) =>
              \A p \in DOMAIN Fr2npzFR.planes :
                  ret.dat["resp"][p] = Pixelize(Fr2npzFR.planes[p]).resp

\* A conversion with a shaping time but the default gain 0: no eresp, and
\* rows of non-zero samples.
C2_Witness ==
    /\ Fr2npzDone
    /\ argv.gain = 0
    /\ argv.shaping # 0
    /\ "eresp" \notin DOMAIN ret.dat
    /\ ret.dat["resp"][1][1][1] # 0

\* C6: the npz file is written only after persist.load and then fr2arrays
\* have completed; a run that ends with FormatError, DataError or
\* NumericError writes nothing.
C6_NoOutputOnFailure ==
    cmd = "fr2npz" =>
        /\ ret.written =>
              /\ exc = "none"
              /\ calls = <<"per.load", "arrs.fr2arrays", "numpy.savez">>
        /\ exc \in {"FormatError", "DataError", "NumericError"} =>
              /\ ~ret.written
              /\ "numpy.savez" \notin Range(calls)
        /\ exc \in {"none", "FormatError", "DataError", "NumericError"}

\* A conversion that loaded its input and failed in fr2arrays.
C6_Witness ==
    /\ cmd = "fr2npz"
    /\ exc = "DataError"
    /\ calls = <<"per.load", "arrs.fr2arrays">>
    /\ ~ret.written

FrzeroDone == cmd = "frzero" /\ exc = "none"

InFR == argv.infile.fr

\* C3: frzero zeroes by wire region: with region = round(pitchpos / pitch),
\* a path with |region| > number has every sample 0 in the written file and
\* a path with |region| <= number has its current unchanged.
C3_ZeroedByRegion ==
    FrzeroDone =>
        \A p \in DOMAIN InFR.planes : \A j \in DOMAIN InFR.planes[p].paths :
            LET pin    == InFR.planes[p].paths[j]
                pout   == ret.fr.planes[p].paths[j]
                region == RegionOf(pin.pitchpos, InFR.planes[p].pitch)
            IN IF Abs(region) > argv.number
               THEN pout.current = Zeros(Len(pin.current))
               ELSE pout.current = pin.current

\* C7: every index range (a, b) group_channel_indices returns is a
\* sequential set: channels[i+1] = channels[i] + 1 for a <= i < b-1.
C7_GroupsSequential ==
    cmd = "group_channel_indices" =>
        \A k \in DOMAIN ret.groups :
            LET a == ret.groups[k][1]
                b == ret.groups[k][2]
            IN \A i \in a..(b - 2) :
                At0(argv.channels, i + 1) = At0(argv.channels, i) + 1

\* What frzero must leave alone: everything of a field response but the
\* sample values.
Frame(fr) ==
    [fr EXCEPT !.planes =
        [p \in DOMAIN fr.planes |->
            [fr.planes[p] EXCEPT !.paths =
                [j \in DOMAIN fr.planes[p].paths |->
                    [pitchpos |-> fr.planes[p].paths[j].pitchpos,
                     nsamples |-> Len(fr.planes[p].paths[j].current)]]]]]

\* C10: the field response frzero writes has the planes, planeid, location,
\* pitch, paths, pitchpos, current lengths and scalars of the input; a
\* current that differs from the input's is all zero.
C10_OnlySamplesChange ==
    FrzeroDone =>
        /\ Frame(ret.fr) = Frame(InFR)
        /\ \A p \in DOMAIN InFR.planes : \A j \in DOMAIN InFR.planes[p].paths :
              LET pin  == InFR.planes[p].paths[j]
                  pout == ret.fr.planes[p].paths[j]
              IN \/ pout.current = pin.current
                 \/ pout.current = Zeros(Len(pin.current))

\* A two-plane run of frzero that zeroed one path and kept another.
C10_Witness ==
    /\ FrzeroDone
    /\ Len(InFR.planes) = 2
    /\ \E p \in DOMAIN InFR.planes : \E j, k \in DOMAIN InFR.planes[p].paths :
          /\ ret.fr.planes[p].paths[j].current # InFR.planes[p].paths[j].current
          /\ ret.fr.planes[p].paths[k].current = InFR.planes[p].paths[k].current

\* C11: frzero preserves the flip symmetry of a plane: of two paths of one
\* plane at pitchpos +p and -p either both are kept or both are zeroed, so
\* two such paths of equal current in the input are of equal current in
\* the written file.
C11_FlipSymmetryPreserved ==
    FrzeroDone =>
        \A p \in DOMAIN InFR.planes : \A j, k \in DOMAIN InFR.planes[p].paths :
            LET jin  == InFR.planes[p].paths[j]
                kin  == InFR.planes[p].paths[k]
                jout == ret.fr.planes[p].paths[j]
                kout == ret.fr.planes[p].paths[k]
            IN jin.pitchpos = -kin.pitchpos =>
                  /\ \/ jout.current = jin.current /\ kout.current = kin.current
                     \/ /\ jout.current = Zeros(Len(jin.current))
                        /\ kout.current = Zeros(Len(kin.current))
                  /\ jin.current = kin.current => jout.current = kout.current

\* A run of frzero --number 0 on a plane with paths of one current at -h
\* and +h, which zeroes both and keeps the path at 0.
C11_Witness ==
    /\ FrzeroDone
    /\ argv.number = 0
    /\ \E p \in DOMAIN InFR.planes :
          /\ Len(InFR.planes[p].paths) = 3
          /\ InFR.planes[p].paths[1].pitchpos = -InFR.planes[p].paths[3].pitchpos
          /\ InFR.planes[p].paths[1].pitchpos # 0
          /\ InFR.planes[p].paths[1].current = InFR.planes[p].paths[3].current
          /\ ret.fr.planes[p].paths[1].current = Zeros(NSamples)
          /\ ret.fr.planes[p].paths[3].current = Zeros(NSamples)
          /\ ret.fr.planes[p].paths[2].current = InFR.planes[p].paths[2].current

NoiseDone == cmd = "convert_noise_spectra"

Loaders == {"load_noise_spectra_v1", "load_noise_spectra", "load_coherent_noise_spectra"}

\* The loader the command is to run for each known format.
LoaderOf ==
    [f \in {"microboonev1", "icarusv1-incoherent", "icarusv1-coherent"} |->
        CASE f = "microboonev1"        -> "load_noise_spectra_v1"
          [] f = "icarusv1-incoherent" -> "load_noise_spectra"
          [] f = "icarusv1-coherent"   -> "load_coherent_noise_spectra"]

\* The calls of loaders and of persist.dump among the calls, in order.
WorkCalls == SelectSeq(calls, LAMBDA c : c.fn \in Loaders \cup {"persist.dump"})

\* An unknown format exits with status 1, no loader run and nothing
\* written.
UnknownFormatRejected ==
    argv.format \notin DOMAIN LoaderOf =>
        /\ exc = "SystemExit(1)"
        /\ WorkCalls = <<>>
        /\ ~ret.written

\* C12 as stated: an unknown format is rejected before any work; each
\* known format has exactly one loader run on the input and persist.dump
\* called exactly once, after the load.
C12_KnownFormatLoadedAndDumped ==
    NoiseDone =>
        /\ UnknownFormatRejected
        /\ argv.format \in DOMAIN LoaderOf =>
              WorkCalls = <<Call(LoaderOf[argv.format], argv.inputfile),
                            Call("persist.dump", argv.outputfile)>>

\* C12 as amended: an unknown format is rejected before any work; each
\* known format has exactly one loader, its own, run on the input; when
\* the loader returns, persist.dump is called exactly once on the output,
\* after the load, and when the loader raises, its exception leaves the
\* command and persist.dump is not called.
C12_UnknownFormatRejected ==
    NoiseDone =>
        /\ UnknownFormatRejected
        /\ argv.format \in DOMAIN LoaderOf =>
              /\ calls[1] = Call(LoaderOf[argv.format], argv.inputfile)
              /\ Len(SelectSeq(calls, LAMBDA c : c.fn \in Loaders)) = 1
              /\ argv.loadOk =>
                    /\ exc = "none"
                    /\ WorkCalls = <<calls[1], Call("persist.dump", argv.outputfile)>>
              /\ ~argv.loadOk =>
                    /\ exc \notin {"none", "SystemExit(1)"}
                    /\ WorkCalls = <<calls[1]>>
                    /\ ~ret.written

\* A run with --format microboonev2: exit status 1 after the echo alone.
C12_Witness ==
    /\ NoiseDone
    /\ argv.format = "microboonev2"
    /\ exc = "SystemExit(1)"
    /\ calls = <<Call("click.echo", "microboonev2")>>

\* Whether an expression is arithmetic over numeric literals and symbols of
\* the unit table only.
RECURSIVE UnitArithmetic(_)
UnitArithmetic(e) ==
    CASE e.kind = "num"  -> TRUE
      [] e.kind = "name" -> e.id \in UnitNames
      [] e.kind = "bin"  -> UnitArithmetic(e.l) /\ UnitArithmetic(e.r)
      [] OTHER           -> FALSE

\* C4: evaluating an option expression yields one scalar or fails with
\* ConfigError; an expression that is not arithmetic over numeric literals
\* and unit symbols fails with ConfigError, and no expression runs general
\* code.
C4_EvalScalarOrConfigError ==
    /\ cmd \in {"convert_garfield", "channel_responses"} =>
          \A k \in DOMAIN ret.evals :
              /\ \/ ret.evals[k].exc = "ConfigError"
                 \/ ret.evals[k].exc = "none" /\ ret.evals[k].type \in {"int", "float"}
              /\ ~ret.evals[k].ran
    /\ cmd = "convert_garfield" /\ ~UnitArithmetic(argv.origin) => exc = "ConfigError"
    /\ cmd = "channel_responses" /\ ~UnitArithmetic(argv.tscale) => exc = "ConfigError"

\* C5: every file handle a command opens is acquired in a scope that
\* releases it, and none is open when the command returns, whether it
\* returns normally or with an exception.
C5_HandlesScopedAndReleased ==
    cmd \in {"channel_responses", "plot_garfield_track_response"} =>
        \A h \in handles : h.scoped /\ ~h.open

PlotDone == cmd = "plot_garfield_track_response"

Writers == {"numpy.savez", "numpy.save", "write.txt", "write.json"}

\* The writes of the data among the calls of the command, in order.
DumpCalls == SelectSeq(calls, LAMBDA c : c \in Writers)

\* C8 as stated: every non-empty dump_data gets exactly one write of the
\* data, after the figure is saved; an empty one gets none.
C8_EveryNameDumped ==
    PlotDone =>
        /\ argv.dump_data # <<>> =>
              /\ Len(DumpCalls) = 1
              /\ calls[Len(calls)] \in Writers
              /\ calls[Len(calls) - 1] = "fig.savefig"
        /\ argv.dump_data = <<>> => DumpCalls = <<>>

\* The writer of a name by its extension, "none" when the name ends with
\* none of the four.
WriterOf(name) ==
    CASE EndsWith(name, DotNpz)  -> "numpy.savez"
      [] EndsWith(name, DotNpy)  -> "numpy.save"
      [] EndsWith(name, DotTxt)  -> "write.txt"
      [] EndsWith(name, DotJson) -> "write.json"
      [] OTHER                   -> "none"

\* C8 as amended: a dump_data ending with .npz, .npy, .txt or .json gets
\* exactly one write of the data, by the writer of that extension, as the
\* last call and right after the figure is saved; any other dump_data, the
\* empty one included, gets none.
C8_KnownExtensionDumped ==
    PlotDone =>
        /\ WriterOf(argv.dump_data) # "none" =>
              /\ DumpCalls = <<WriterOf(argv.dump_data)>>
              /\ calls[Len(calls)] = WriterOf(argv.dump_data)
              /\ calls[Len(calls) - 1] = "fig.savefig"
        /\ WriterOf(argv.dump_data) = "none" =>
              /\ DumpCalls = <<>>
              /\ calls[Len(calls)] = "fig.savefig"

\* A run with --dump-data d.npy: one numpy.save after the figure.
C8_Witness ==
    /\ PlotDone
    /\ argv.dump_data = <<"d">> \o DotNpy
    /\ DumpCalls = <<"numpy.save">>

\* C9: with --regions k > 0 the records kept are exactly those with
\* |region| in 0..k-1, in their original order, so at most k values of
\* |region| remain; with k = 0 every record is kept.
C9_RegionsLimit ==
    PlotDone =>
        /\ argv.regions > 0 =>
              /\ Range(ret.dat) = {r \in Range(argv.dat) : Abs(r.region) \in 0..(argv.regions - 1)}
              /\ \A i, j \in DOMAIN ret.dat : i < j => ret.dat[i].id < ret.dat[j].id
              /\ Cardinality({Abs(r.region) : r \in Range(ret.dat)}) <= argv.regions
              /\ ret.nwires < argv.regions
        /\ argv.regions = 0 => ret.dat = argv.dat

\* A run with --regions 2 that drops a record of region -2 and keeps the
\* records of regions 1 and 0 around it, in order.
C9_Witness ==
    /\ PlotDone
    /\ argv.regions = 2
    /\ Len(argv.dat) = 3
    /\ argv.dat[1].region = 1 /\ argv.dat[2].region = -2 /\ argv.dat[3].region = 0
    /\ ret.dat = <<argv.dat[1], argv.dat[3]>>

====
